---- MODULE Spec2Model ----
(***************************************************************************)
(* Model of scripts/app.js: the HQVSite content pipeline (three JSON       *)
(* loads followed by the synchronous setup block of init), the post card   *)
(* renderer, the newsletter subscribe action and the portfolio simulator.  *)
(*                                                                         *)
(* JSON values are records with a "kind" field so that values of           *)
(* different JavaScript types stay comparable.  Money is fixed point, in   *)
(* cents.  Dates are day numbers; DateMs is what new Date(s) yields.       *)
(***************************************************************************)
EXTENDS Integers, Sequences, FiniteSets, TLC

VARIABLES
    pc,                 \* position of init(): which await it is suspended at
    configResp,         \* what /data/config.json answers
    episodesResp,       \* what /data/episodes.json answers
    postsResp,          \* what /data/posts.json answers
    config,             \* this.config
    episodes,           \* this.episodes
    posts,              \* this.posts
    stepsRun,           \* setup steps of init that returned normally, in order
    initError,          \* init's catch block ran
    liveIndicator,      \* #live-indicator style.display
    platformLinks,      \* href of each .platform-link
    footerLinks,        \* href of each footer link
    episodesContainer,  \* #latest-episodes innerHTML
    postsContainer,     \* #recent-posts innerHTML
    newsletterSignup,   \* #newsletter-signup
    portfolioTimer,     \* the 30 s interval is registered
    portfolioHoldings,  \* this.portfolioHoldings
    totalValue,         \* closure variable totalValue
    previousValue,      \* closure variable previousValue
    chartData,          \* closure variable chartData
    portfolioDisplay,   \* what updatePortfolioDisplay last wrote
    holdingsShown,      \* #portfolio-holdings innerHTML
    chartDrawn,         \* the series last passed to drawPortfolioChart
    ticks,              \* interval callbacks run so far
    tickerStarted,      \* setupStockTicker was called
    emailInput,         \* #newsletter-email value
    alerts,             \* alert() calls, in order
    opened,             \* window.open() calls, in order
    analyticsLog,       \* Analytics.trackEvent calls, in order
    calls,              \* subscribeToNewsletter calls so far
    cardPost,           \* argument of a direct createPostCard call
    cardOut,            \* its result
    tickerContent,      \* .ticker-content innerHTML: the ticker items
    tickerSources,      \* which code path produced each item of the frame
    tickerInFlight,     \* updateStockData calls awaiting their quote batch
    lastResponses,      \* what the quote endpoint answered to the last batch
    refreshes,          \* 120 s interval callbacks run so far
    accentTimer,        \* the 100 ms timeout: "pending" or "fired"
    accentColor,        \* --accent-color on the document element
    menuDom,            \* which of the mobile menu elements the page has
    navRegistered,      \* setupNavigation has attached the click listeners
    overlayActive,      \* .mobile-menu-overlay has class active
    bodyOverflow,       \* document.body.style.overflow
    lastClick,          \* the mobile menu click handled last
    clicks              \* mobile menu clicks handled so far

pipelineVars == <<pc, configResp, episodesResp, postsResp, config, episodes,
                  posts, stepsRun, initError, liveIndicator, platformLinks,
                  footerLinks, episodesContainer, postsContainer,
                  newsletterSignup, tickerStarted>>
portfolioVars == <<portfolioTimer, portfolioHoldings, totalValue,
                   previousValue, chartData, portfolioDisplay, holdingsShown,
                   chartDrawn, ticks>>
newsletterVars == <<emailInput, alerts, opened, analyticsLog, calls>>
cardVars == <<cardPost, cardOut>>
tickerVars == <<tickerContent, tickerSources, tickerInFlight, lastResponses, refreshes>>
accentVars == <<accentTimer, accentColor>>
menuVars == <<menuDom, navRegistered, overlayActive, bodyOverflow, lastClick, clicks>>
vars == <<pipelineVars, portfolioVars, newsletterVars, cardVars, tickerVars,
          accentVars, menuVars>>

----------------------------------------------------------------------------
(* Bounds of the model *)

MaxEpisodes == 4
MaxPosts == 4
MaxDate == 2
MaxPostId == 4
MaxLen == 3
MaxCalls == 2
MaxTicks == 5
MaxRefreshes == 2
MaxClicks == 3

(* Program constants *)

CardLimit == 3
ChartPoints == 20
ChartCap == 20

----------------------------------------------------------------------------
(* Generic helpers *)

Min(a, b) == IF a <= b THEN a ELSE b

\* Array.prototype.slice(0, n)
Take(s, n) == SubSeq(s, 1, Min(n, Len(s)))

\* all sequences over S of length at most n
SeqUpTo(S, n) == UNION {[1..k -> S] : k \in 0..n}

Range(s) == {s[i] : i \in 1..Len(s)}

Undefined == "undefined"
Platforms == {"x", "youtube", "spotify", "apple"}

----------------------------------------------------------------------------
(* Site configuration *)

NoSocial == [kind |-> "undefined", links |-> [p \in Platforms |-> Undefined]]
NoEmbed == [kind |-> "undefined", placeholder |-> FALSE]

\* constructor: this.config = null
NullConfig ==
    [kind |-> "null", site_name |-> Undefined, tagline |-> Undefined,
     accent_color |-> Undefined, on_air |-> FALSE, social |-> NoSocial,
     subscribe_embed |-> NoEmbed]

\* the literal of loadConfig's catch block
FallbackConfig ==
    [kind |-> "object",
     site_name |-> "Headquarters Ventures",
     tagline |-> "Business, comedy, and the occasional bad idea.",
     accent_color |-> "#FFD200",
     on_air |-> FALSE,
     social |-> [kind |-> "object", links |-> [p \in Platforms |-> "#"]],
     subscribe_embed |-> NoEmbed]

\* a well-formed config.json: on air, real links, a real embed
LiveConfig ==
    [kind |-> "object",
     site_name |-> "Headquarters Ventures",
     tagline |-> "Live now",
     accent_color |-> "#00AAFF",
     on_air |-> TRUE,
     social |-> [kind |-> "object",
                 links |-> [p \in Platforms |->
                              IF p = "x" THEN "#" ELSE "https://social/" \o p]],
     subscribe_embed |-> [kind |-> "string", placeholder |-> FALSE]]

\* a well-formed config.json whose embed is still the placeholder comment
PlaceholderConfig ==
    [LiveConfig EXCEPT !.on_air = FALSE,
                       !.subscribe_embed = [kind |-> "string", placeholder |-> TRUE]]

\* the body {} : an object with none of the fields
EmptyObjectConfig == [NullConfig EXCEPT !.kind = "object"]

\* a config.json whose subscribe_embed is a number
NumberEmbedConfig ==
    [LiveConfig EXCEPT !.subscribe_embed = [kind |-> "number", placeholder |-> FALSE]]

ConfigBodies ==
    {LiveConfig, PlaceholderConfig, EmptyObjectConfig, NumberEmbedConfig, NullConfig}

\* a fetch either rejects, or resolves with a body that does not parse, or
\* resolves with a body that parses to some JSON value
Rejected(b) == [kind |-> "reject", body |-> b]
Unparsable(b) == [kind |-> "badjson", body |-> b]
Parsed(b) == [kind |-> "ok", body |-> b]

ConfigResponses ==
    {Rejected(NullConfig), Unparsable(NullConfig)} \cup {Parsed(b) : b \in ConfigBodies}

\* loadConfig: the value this.config holds when the method returns
LoadConfigResult(resp) ==
    IF resp.kind = "ok" THEN resp.body ELSE FallbackConfig

----------------------------------------------------------------------------
(* Episodes *)

NullEntry == [kind |-> "null", number |-> 0, featured |-> FALSE]
EpisodeObject(n, f) == [kind |-> "object", number |-> n, featured |-> f]

\* a JavaScript value held where an array is expected
JsNull == [kind |-> "null", items |-> <<>>]
JsUndefined == [kind |-> "undefined", items |-> <<>>]
JsString == [kind |-> "string", items |-> <<>>]
JsArray(items) == [kind |-> "array", items |-> items]

\* episode lists: every entry is featured, not featured, or null; episode
\* numbers are the positions in the file
EpisodeShapes == {"featured", "plain", "null"}
EpisodeList(shape) ==
    [i \in 1..Len(shape) |->
        IF shape[i] = "null" THEN NullEntry
        ELSE EpisodeObject(i, shape[i] = "featured")]
EpisodeLists == {EpisodeList(s) : s \in SeqUpTo(EpisodeShapes, MaxEpisodes)}

\* the parsed body of episodes.json: null, or an object whose "episodes"
\* field is missing, is not an array, or is an array
NullBody == [kind |-> "null", list |-> JsUndefined]
ObjectBody(list) == [kind |-> "object", list |-> list]

EpisodesResponses ==
    {Rejected(NullBody), Unparsable(NullBody), Parsed(NullBody),
     Parsed(ObjectBody(JsUndefined)), Parsed(ObjectBody(JsString))}
    \cup {Parsed(ObjectBody(JsArray(l))) : l \in EpisodeLists}

\* loadEpisodes: the value this.episodes holds when the method returns
LoadEpisodesResult(resp) ==
    IF resp.kind # "ok" THEN JsArray(<<>>)
    ELSE IF resp.body.kind = "null" THEN JsArray(<<>>)   \* data.episodes throws
    ELSE resp.body.list

----------------------------------------------------------------------------
(* Posts *)

ExternalUrl == "https://example.com/a"
OtherUrl == "https://example.com/b"

NullPost == [kind |-> "null", id |-> 0, date |-> 0, published |-> FALSE, url |-> Undefined]
PostObject(id, date, published, url) ==
    [kind |-> "object", id |-> id, date |-> date, published |-> published, url |-> url]

\* new Date(post.date) as a number: milliseconds since the epoch
DateMs(date) == date * 86400000

\* the comparator of loadRecentPosts
ByDateDesc(a, b) == DateMs(b.date) - DateMs(a.date)

\* Array.prototype.sort is stable: an element is inserted after every
\* element that does not compare greater; cmp[<<a, b>>] is the comparator's
\* result on a and b
RECURSIVE InsertSorted(_, _, _)
InsertSorted(cmp, x, s) ==
    IF s = <<>> THEN <<x>>
    ELSE IF cmp[<<Head(s), x>>] <= 0 THEN <<Head(s)>> \o InsertSorted(cmp, x, Tail(s))
    ELSE <<x>> \o s

RECURSIVE StableSort(_, _)
StableSort(cmp, s) ==
    IF s = <<>> THEN <<>>
    ELSE InsertSorted(cmp, s[Len(s)], StableSort(cmp, SubSeq(s, 1, Len(s) - 1)))

IsPublished(post) == post.published

\* loadPosts: the value this.posts holds when the method returns
LoadPostsResult(resp) ==
    IF resp.kind # "ok" THEN JsArray(<<>>)
    ELSE IF resp.body.kind = "null" THEN JsArray(<<>>)        \* data.posts throws
    ELSE IF resp.body.list.kind # "array" THEN JsArray(<<>>)  \* .filter throws
    ELSE IF \E i \in 1..Len(resp.body.list.items) :
                resp.body.list.items[i].kind = "null"
         THEN JsArray(<<>>)                                   \* post.published throws
    ELSE JsArray(SelectSeq(resp.body.list.items, IsPublished))

\* post lists: every entry is an object with a date and a published flag;
\* ids are the positions in the file
PostShapes == [date : 1..MaxDate, published : BOOLEAN]
PostList(shape) ==
    [i \in 1..Len(shape) |->
        PostObject(i, shape[i].date, shape[i].published, Undefined)]
PostLists == {PostList(s) : s \in SeqUpTo(PostShapes, MaxPosts)}

\* a few post lists with links, an empty url and a null entry
LinkedPosts ==
    <<PostObject(1, 1, TRUE, ExternalUrl), PostObject(2, 2, FALSE, Undefined),
      PostObject(3, 2, TRUE, ""), PostObject(4, 1, TRUE, Undefined),
      PostObject(5, 2, TRUE, OtherUrl)>>
BrokenPosts == <<PostObject(1, 1, TRUE, Undefined), NullPost>>

FailedPostsResponses ==
    {Rejected(NullBody), Unparsable(NullBody), Parsed(NullBody),
     Parsed(ObjectBody(JsUndefined)), Parsed(ObjectBody(JsString))}
FewPostsResponses ==
    {Parsed(ObjectBody(JsUndefined)), Parsed(ObjectBody(JsArray(LinkedPosts))),
     Parsed(ObjectBody(JsArray(BrokenPosts)))}
PostsResponses ==
    FailedPostsResponses \cup {Parsed(ObjectBody(JsArray(l))) : l \in PostLists}

----------------------------------------------------------------------------
(* Renderer *)

InitialContainer == [kind |-> "initial", text |-> "", cards |-> <<>>]
Placeholder(text) == [kind |-> "placeholder", text |-> text, cards |-> <<>>]
Cards(cards) == [kind |-> "cards", text |-> "", cards |-> cards]

IsFeatured(ep) == ep.featured

\* the slice without the filter
LatestEpisodesUnfiltered(items) == Take(items, CardLimit)

\* loadLatestEpisodes: the episodes that get a card
LatestEpisodes(items) == Take(SelectSeq(items, IsFeatured), CardLimit)

\* createEpisodeCard
CreateEpisodeCard(ep) == [number |-> ep.number]

\* the comparator with its operands exchanged
ByDateAsc(a, b) == DateMs(a.date) - DateMs(b.date)
SortedPostsAscending(items) ==
    StableSort([p \in Range(items) \X Range(items) |-> ByDateAsc(p[1], p[2])], items)

\* loadRecentPosts: this.posts after the in-place sort
SortedPosts(items) ==
    StableSort([p \in Range(items) \X Range(items) |-> ByDateDesc(p[1], p[2])], items)

\* loadRecentPosts: the posts that get a card
RecentPosts(items) == Take(SortedPosts(items), CardLimit)

\* a url is used when it is truthy: neither undefined nor the empty string
Truthy(str) == str # Undefined /\ str # ""

\* every link opened in a new context
LinkTargetAlwaysBlank(post) == "_blank"

\* createPostCard: href and target of the title link
PostUrl(post) ==
    IF Truthy(post.url) THEN post.url ELSE "/post.html?id=" \o ToString(post.id)
LinkTarget(post) == IF Truthy(post.url) THEN "_blank" ELSE "_self"
CreatePostCard(post) ==
    [id |-> post.id, date |-> post.date, href |-> PostUrl(post),
     target |-> LinkTarget(post)]

----------------------------------------------------------------------------
(* Portfolio simulator.  Prices and values are in cents; a percentage is   *)
(* the exact fraction num / den percent.                                   *)

Holding(symbol, shares, price) == [symbol |-> symbol, shares |-> shares, price |-> price]

\* the literal of setupPortfolioTracker
SeedHoldings ==
    <<Holding("AAPL", 12, 17550), Holding("MSFT", 8, 41025),
      Holding("GOOGL", 15, 14080), Holding("AMZN", 6, 18045),
      Holding("TSLA", 20, 25090), Holding("NVDA", 3, 88060),
      Holding("META", 10, 32015), Holding("NFLX", 4, 45030),
      Holding("V", 7, 26040), Holding("JPM", 9, 14525)>>

\* division rounding toward zero
Trunc(n, d) == IF n >= 0 THEN n \div d ELSE -((-n) \div d)

\* portfolioHoldings.reduce((sum, h) => sum + h.shares * h.price, 0)
RECURSIVE TotalOf(_)
TotalOf(holdings) ==
    IF holdings = <<>> THEN 0
    ELSE TotalOf(SubSeq(holdings, 1, Len(holdings) - 1))
         + holdings[Len(holdings)].shares * holdings[Len(holdings)].price

\* totalValue * 0.985
PreviousOf(total) == total - Trunc(total * 15, 1000)

\* (change / previousValue) * 100, in tenths of a percent
ChangePercent(change, previous) == Trunc(change * 1000, previous)

\* generateMockChartData: one point for every i with 0 <= i <= points
GenerateMockChartData(startPrice, endPrice, noise) ==
    [k \in 1..(ChartPoints + 1) |->
        startPrice + Trunc((endPrice - startPrice) * (k - 1), ChartPoints) + noise[k]]

\* updatePortfolioDisplay
UpdatePortfolioDisplay(change, changePercent, total) ==
    [written |-> TRUE, positive |-> change >= 0, change |-> change,
     changePercent |-> changePercent, total |-> total]

\* updatePortfolioHoldings: the map step
WithShare(h, total) ==
    [symbol |-> h.symbol, value |-> h.shares * h.price,
     percentage |-> [num |-> h.shares * h.price * 100, den |-> total]]

\* the share compared as a fraction instead of a percentage
IsKeyHoldingFraction(item) == item.percentage.num > item.percentage.den \div 10

\* updatePortfolioHoldings: the filter step, percentage > 10
IsKeyHolding(item) == item.percentage.num > 10 * item.percentage.den

\* updatePortfolioHoldings: the comparator b.percentage - a.percentage; all
\* items of one call share the denominator
ByPercentageDesc(a, b) == b.percentage.num - a.percentage.num

\* updatePortfolioHoldings: what is written to #portfolio-holdings
KeyHoldings(holdings, total) ==
    LET kept == SelectSeq([i \in 1..Len(holdings) |-> WithShare(holdings[i], total)],
                          IsKeyHolding)
    IN  StableSort([p \in Range(kept) \X Range(kept) |-> ByPercentageDesc(p[1], p[2])],
                   kept)

\* a movement ten times as large
FluctuateTenfold(h, fluctuation) ==
    [h EXCEPT !.price = h.price + Trunc(h.price * fluctuation, 1000)]

\* the interval callback: holding.price *= (1 + fluctuation), fluctuation in
\* ten-thousandths
Fluctuate(h, fluctuation) ==
    [h EXCEPT !.price = h.price + Trunc(h.price * fluctuation, 10000)]

\* chartData.push(totalValue); if (chartData.length > 20) chartData.shift()
PushCapped(data, total) ==
    IF Len(data) + 1 > ChartCap THEN Tail(Append(data, total))
    ELSE Append(data, total)

\* (Math.random() - 0.5) * 2 lies in [-1, 1): the extremes, in cents
Noises == {-100, 99}
NoiseVectors ==
    {[k \in 1..(ChartPoints + 1) |-> IF k % 2 = 1 THEN a ELSE b] : a, b \in Noises}

\* (Math.random() - 0.5) * 0.02 lies in [-0.01, 0.01): the extremes, in
\* ten-thousandths; one group of holdings moves against the rest
Fluctuations == {-100, 99}
FluctuationGroups == {{6}}
FluctuationVectors ==
    {[i \in 1..Len(SeedHoldings) |-> IF i \in g THEN a ELSE b] :
        a, b \in Fluctuations, g \in FluctuationGroups}

NoPortfolio ==
    [timer |-> FALSE, holdings |-> <<>>, totalValue |-> 0, previousValue |-> 0,
     chartData |-> <<>>,
     display |-> [written |-> FALSE, positive |-> FALSE, change |-> 0,
                  changePercent |-> 0, total |-> 0],
     shown |-> <<>>, drawn |-> <<>>]

\* setupPortfolioTracker, up to and including setInterval
PortfolioAfterSetup(noise) ==
    LET total == TotalOf(SeedHoldings)
        previous == PreviousOf(total)
        change == total - previous
        data == GenerateMockChartData(previous, total, noise)
    IN  [timer |-> TRUE, holdings |-> SeedHoldings, totalValue |-> total,
         previousValue |-> previous, chartData |-> data,
         display |-> UpdatePortfolioDisplay(change, ChangePercent(change, previous), total),
         shown |-> KeyHoldings(SeedHoldings, total),
         drawn |-> data]

\* the interval callback
PortfolioAfterTick(p, fluctuation) ==
    LET holdings == [i \in 1..Len(p.holdings) |-> Fluctuate(p.holdings[i], fluctuation[i])]
        total == TotalOf(holdings)
        change == total - p.previousValue
        data == PushCapped(p.chartData, total)
    IN  [timer |-> TRUE, holdings |-> holdings, totalValue |-> total,
         previousValue |-> p.previousValue, chartData |-> data,
         display |-> UpdatePortfolioDisplay(change, ChangePercent(change, p.previousValue), total),
         shown |-> KeyHoldings(holdings, total),
         drawn |-> data]

----------------------------------------------------------------------------
(* Stock ticker.  Prices and changes are in cents, percentages in          *)
(* hundredths of a percent, Math.random() in hundredths.                   *)

\* the literal of setupStockTicker
Stocks ==
    <<"AAPL", "MSFT", "GOOGL", "AMZN", "TSLA", "NVDA", "META", "NFLX",
      "JPM", "BAC", "V", "MA", "JNJ", "UNH", "PG", "HD",
      "WMT", "DIS", "KO", "PEP", "NKE", "MCD", "COST", "SBUX",
      "BA", "CAT", "XOM", "CVX", "SPY", "QQQ">>

\* the literal of getMockStockData
BasePrices ==
    [AAPL |-> 17500, MSFT |-> 41000, GOOGL |-> 14000, AMZN |-> 18000,
     TSLA |-> 25000, NVDA |-> 88000, META |-> 32000, NFLX |-> 45000,
     JPM |-> 14500, BAC |-> 3500, V |-> 26000, MA |-> 41000, JNJ |-> 16000,
     UNH |-> 52000, PG |-> 15500, HD |-> 33000, WMT |-> 16500, DIS |-> 9500,
     KO |-> 6000, PEP |-> 17000, NKE |-> 10500, MCD |-> 29000, COST |-> 72000,
     SBUX |-> 9500, BA |-> 21000, CAT |-> 34000, XOM |-> 11000, CVX |-> 15500,
     SPY |-> 48000, QQQ |-> 39000]

\* a JavaScript value held where a number is expected
NoValue == [kind |-> "undefined", value |-> 0]
Num(v) == [kind |-> "number", value |-> v]
NumericString(v) == [kind |-> "string", value |-> v]

\* the ticker item of updateStockData and generateMockStockData
TickerItem(symbol, price, change, changePercent) ==
    [symbol |-> symbol,
     color |-> IF change >= 0 THEN "#00ff88" ELSE "#ff4757",
     sign |-> IF change >= 0 THEN "+" ELSE "",
     price |-> price, change |-> change, changePercent |-> changePercent]

\* generateMockStockData: one item for every symbol
GenerateMockStockData(stocks, draws) ==
    [i \in 1..Len(stocks) |->
        LET basePrice == 500 * draws[i].r1 + 5000
            change == (draws[i].r2 - 50) * 20
        IN  TickerItem(stocks[i], basePrice, change, Trunc(change * 10000, basePrice))]

\* getMockStockData
GetMockStockData(symbol, draw) ==
    LET basePrice == BasePrices[symbol]
        volatility == 5 * draw.r1 + 100                    \* ten-thousandths
        change == Trunc(Trunc((draw.r2 - 50) * basePrice, 100) * volatility, 10000)
    IN  [symbol |-> symbol, source |-> "symbol", price |-> Num(basePrice + change),
         change |-> Num(change), changePercent |-> Num(Trunc(change * 10000, basePrice))]

\* x || 0
OrZero(x) ==
    IF x.kind = "undefined" \/ (x.kind = "number" /\ x.value = 0) THEN Num(0) ELSE x

\* data.c && data.c > 0
HasPrice(data) == data.c.kind # "undefined" /\ data.c.value > 0

\* fetchStockData: what the promise of one symbol resolves to
QuoteFor(symbol, resp, draw) ==
    IF resp.kind # "ok" THEN GetMockStockData(symbol, draw)         \* fetch or json rejects
    ELSE IF resp.body.kind = "null" THEN GetMockStockData(symbol, draw)   \* data.c throws
    ELSE IF HasPrice(resp.body)
         THEN [symbol |-> symbol, source |-> "live", price |-> resp.body.c,
               change |-> OrZero(resp.body.d), changePercent |-> OrZero(resp.body.dp)]
         ELSE GetMockStockData(symbol, draw)

\* fetchStockData: Promise.all over the symbols, in list order
FetchStockData(symbols, responses, draws) ==
    [i \in 1..Len(symbols) |-> QuoteFor(symbols[i], responses[i], draws[i])]

\* toFixed exists on numbers only
Renderable(quote) ==
    /\ quote.price.kind = "number"
    /\ quote.change.kind = "number"
    /\ quote.changePercent.kind = "number"

\* updateStockData whose catch block renders nothing
UpdateStockDataNoFallback(stocks, responses, draws) ==
    LET stockData == FetchStockData(stocks, responses, draws)
    IN  IF \A i \in 1..Len(stockData) : Renderable(stockData[i])
        THEN [content |-> [i \in 1..Len(stockData) |->
                              TickerItem(stockData[i].symbol, stockData[i].price.value,
                                         stockData[i].change.value,
                                         stockData[i].changePercent.value)],
              sources |-> [i \in 1..Len(stockData) |-> stockData[i].source]]
        ELSE [content |-> <<>>, sources |-> <<>>]

\* updateStockData once its quotes are in: the items of the batch, or the
\* synthetic frame of the catch block when rendering an item throws
UpdateStockData(stocks, responses, draws) ==
    LET stockData == FetchStockData(stocks, responses, draws)
    IN  IF \A i \in 1..Len(stockData) : Renderable(stockData[i])
        THEN [content |-> [i \in 1..Len(stockData) |->
                              TickerItem(stockData[i].symbol, stockData[i].price.value,
                                         stockData[i].change.value,
                                         stockData[i].changePercent.value)],
              sources |-> [i \in 1..Len(stockData) |-> stockData[i].source]]
        ELSE [content |-> GenerateMockStockData(stocks, draws),
              sources |-> [i \in 1..Len(stocks) |-> "frame"]]

\* Math.random() twice per symbol: low, middle and high draws, alternating
\* over the list
LowDraw == [r1 |-> 0, r2 |-> 0]
MidDraw == [r1 |-> 50, r2 |-> 50]
HighDraw == [r1 |-> 99, r2 |-> 99]
DrawVectors ==
    {[i \in 1..Len(Stocks) |-> IF i % 2 = 1 THEN d[1] ELSE d[2]] :
        d \in {<<LowDraw, HighDraw>>, <<MidDraw, LowDraw>>}}

\* what the quote endpoint answers for one symbol
QuoteBody(c, d, dp) == [kind |-> "object", c |-> c, d |-> d, dp |-> dp]
NullQuoteBody == [kind |-> "null", c |-> NoValue, d |-> NoValue, dp |-> NoValue]
QuoteResponses ==
    {Rejected(NullQuoteBody), Parsed(NullQuoteBody),
     Parsed(QuoteBody(NoValue, NoValue, NoValue)),
     Parsed(QuoteBody(Num(0), Num(0), Num(0))),
     Parsed(QuoteBody(Num(15025), Num(-120), Num(-79))),
     Parsed(QuoteBody(Num(15025), Num(0), NoValue)),
     Parsed(QuoteBody(Num(15025), Num(250), Num(169))),
     Parsed(QuoteBody(NumericString(15025), Num(250), Num(169)))}

\* one group of symbols is answered one way, the rest another way
ResponseGroups == {{2, 30}}
ResponseVectors ==
    {[i \in 1..Len(Stocks) |-> IF i \in g THEN a ELSE b] :
        a \in QuoteResponses, b \in QuoteResponses, g \in ResponseGroups}

----------------------------------------------------------------------------
(* The synchronous setup block of init.  A step takes the page state and   *)
(* returns it changed; threw is set where the JavaScript throws.           *)

Throw(st) == [st EXCEPT !.threw = TRUE]

\* config?.field is read only from an object
IsObject(v) == v.kind = "object"

\* link.href = url for every configured url other than "#"
Relinked(hrefs, social) ==
    [p \in Platforms |->
        IF Truthy(social.links[p]) /\ social.links[p] # "#"
        THEN social.links[p] ELSE hrefs[p]]

\* setupNavigation: the listeners are attached for the elements found
SetupNavigation(st) == [st EXCEPT !.navRegistered = TRUE]

SetupLiveIndicator(st) ==
    IF IsObject(st.config) /\ st.config.on_air
    THEN [st EXCEPT !.liveIndicator = "flex"]
    ELSE st

SetupPlatformLinks(st) ==
    IF ~(IsObject(st.config) /\ IsObject(st.config.social)) THEN st
    ELSE [st EXCEPT !.platformLinks = Relinked(st.platformLinks, st.config.social)]

LoadLatestEpisodes(st) ==
    IF st.episodes.kind \in {"null", "undefined"} THEN st     \* !this.episodes
    ELSE IF st.episodes.kind # "array" THEN Throw(st)         \* .filter is not a function
    ELSE IF \E i \in 1..Len(st.episodes.items) : st.episodes.items[i].kind = "null"
         THEN Throw(st)                                       \* ep.featured of null
    ELSE LET latestEpisodes == LatestEpisodes(st.episodes.items)
         IN  IF Len(latestEpisodes) = 0
             THEN [st EXCEPT !.episodesContainer = Placeholder("No episodes available yet.")]
             ELSE [st EXCEPT !.episodesContainer =
                                 Cards([k \in 1..Len(latestEpisodes) |->
                                          CreateEpisodeCard(latestEpisodes[k])])]

LoadRecentPosts(st) ==
    IF st.posts.kind \in {"null", "undefined"} THEN st        \* !this.posts
    ELSE LET sorted == SortedPosts(st.posts.items)
             recentPosts == RecentPosts(st.posts.items)
         IN  IF Len(recentPosts) = 0
             THEN [st EXCEPT !.posts = JsArray(sorted),
                             !.postsContainer = Placeholder("No blog posts available yet.")]
             ELSE [st EXCEPT !.posts = JsArray(sorted),
                             !.postsContainer =
                                 Cards([k \in 1..Len(recentPosts) |->
                                          CreatePostCard(recentPosts[k])])]

SetupNewsletterSignup(st) ==
    IF ~IsObject(st.config) \/ st.config.subscribe_embed.kind = "undefined" THEN st
    ELSE IF st.config.subscribe_embed.kind # "string" THEN Throw(st)  \* .includes
    ELSE IF st.config.subscribe_embed.placeholder
         THEN [st EXCEPT !.newsletterSignup = "hidden"]
         ELSE [st EXCEPT !.newsletterSignup = "embed"]

SetupFooterLinks(st) ==
    IF ~(IsObject(st.config) /\ IsObject(st.config.social)) THEN st
    ELSE [st EXCEPT !.footerLinks = Relinked(st.footerLinks, st.config.social)]

SetupPortfolioTracker(st) == [st EXCEPT !.portfolio = PortfolioAfterSetup(st.noise)]

\* setupStockTicker: the synthetic frame, the first updateStockData call
\* (left awaiting its quotes), and setInterval
SetupStockTicker(st) ==
    [st EXCEPT !.tickerStarted = TRUE,
               !.ticker = [content |-> GenerateMockStockData(Stocks, st.draws),
                           sources |-> [i \in 1..Len(Stocks) |-> "frame"],
                           inFlight |-> st.ticker.inFlight + 1]]

SetupSteps ==
    <<"setupNavigation", "setupLiveIndicator", "setupPlatformLinks",
      "loadLatestEpisodes", "loadRecentPosts", "setupNewsletterSignup",
      "setupFooterLinks", "setupPortfolioTracker", "setupStockTicker">>

RunStep(name, st) ==
    CASE name = "setupNavigation" -> SetupNavigation(st)
      [] name = "setupLiveIndicator" -> SetupLiveIndicator(st)
      [] name = "setupPlatformLinks" -> SetupPlatformLinks(st)
      [] name = "loadLatestEpisodes" -> LoadLatestEpisodes(st)
      [] name = "loadRecentPosts" -> LoadRecentPosts(st)
      [] name = "setupNewsletterSignup" -> SetupNewsletterSignup(st)
      [] name = "setupFooterLinks" -> SetupFooterLinks(st)
      [] name = "setupPortfolioTracker" -> SetupPortfolioTracker(st)
      [] name = "setupStockTicker" -> SetupStockTicker(st)

\* what a step does inside init's try block: an exception leaves for the
\* catch block, a normal return goes on to the next statement
TryStep(name, st) ==
    LET after == RunStep(name, st)
    IN  IF after.threw THEN after
        ELSE [after EXCEPT !.stepsRun = Append(after.stepsRun, name)]

\* the statements of init after the three awaits, in order
RECURSIVE RunSetup(_, _)
RunSetup(k, st) ==
    IF k > Len(SetupSteps) \/ st.threw THEN st
    ELSE RunSetup(k + 1, TryStep(SetupSteps[k], st))

\* the page as a record
Page ==
    [config |-> config, episodes |-> episodes, posts |-> posts,
     liveIndicator |-> liveIndicator, platformLinks |-> platformLinks,
     footerLinks |-> footerLinks, episodesContainer |-> episodesContainer,
     postsContainer |-> postsContainer, newsletterSignup |-> newsletterSignup,
     portfolio |-> [timer |-> portfolioTimer, holdings |-> portfolioHoldings,
                    totalValue |-> totalValue, previousValue |-> previousValue,
                    chartData |-> chartData, display |-> portfolioDisplay,
                    shown |-> holdingsShown, drawn |-> chartDrawn],
     tickerStarted |-> tickerStarted,
     ticker |-> [content |-> tickerContent, sources |-> tickerSources,
                 inFlight |-> tickerInFlight],
     menuDom |-> menuDom, navRegistered |-> navRegistered,
     stepsRun |-> stepsRun, threw |-> FALSE,
     noise |-> [k \in 1..(ChartPoints + 1) |-> 0],
     draws |-> [i \in 1..Len(Stocks) |-> [r1 |-> 0, r2 |-> 0]]]

----------------------------------------------------------------------------
(* Actions of the content pipeline *)

\* init resumes after await this.loadConfig()
LoadConfig ==
    /\ pc = "loadConfig"
    /\ config' = LoadConfigResult(configResp)
    /\ pc' = "loadEpisodes"
    /\ UNCHANGED <<configResp, episodesResp, postsResp, episodes, posts, stepsRun,
                   initError, liveIndicator, platformLinks, footerLinks,
                   episodesContainer, postsContainer, newsletterSignup, tickerStarted>>
    /\ UNCHANGED <<portfolioVars, newsletterVars, cardVars>>
    /\ UNCHANGED <<tickerVars, accentVars, menuVars>>

\* init resumes after await this.loadEpisodes()
LoadEpisodes ==
    /\ pc = "loadEpisodes"
    /\ episodes' = LoadEpisodesResult(episodesResp)
    /\ pc' = "loadPosts"
    /\ UNCHANGED <<configResp, episodesResp, postsResp, config, posts, stepsRun,
                   initError, liveIndicator, platformLinks, footerLinks,
                   episodesContainer, postsContainer, newsletterSignup, tickerStarted>>
    /\ UNCHANGED <<portfolioVars, newsletterVars, cardVars>>
    /\ UNCHANGED <<tickerVars, accentVars, menuVars>>

\* init resumes after await this.loadPosts() and runs to its end
LoadPosts ==
    /\ pc = "loadPosts"
    /\ \E noise \in NoiseVectors, draws \in DrawVectors :
         \E st \in {RunSetup(1, [Page EXCEPT !.posts = LoadPostsResult(postsResp),
                                              !.noise = noise, !.draws = draws])} :
             /\ posts' = st.posts
             /\ navRegistered' = st.navRegistered
             /\ tickerContent' = st.ticker.content
             /\ tickerSources' = st.ticker.sources
             /\ tickerInFlight' = st.ticker.inFlight
             /\ liveIndicator' = st.liveIndicator
             /\ platformLinks' = st.platformLinks
             /\ footerLinks' = st.footerLinks
             /\ episodesContainer' = st.episodesContainer
             /\ postsContainer' = st.postsContainer
             /\ newsletterSignup' = st.newsletterSignup
             /\ tickerStarted' = st.tickerStarted
             /\ stepsRun' = st.stepsRun
             /\ initError' = st.threw
             /\ portfolioTimer' = st.portfolio.timer
             /\ portfolioHoldings' = st.portfolio.holdings
             /\ totalValue' = st.portfolio.totalValue
             /\ previousValue' = st.portfolio.previousValue
             /\ chartData' = st.portfolio.chartData
             /\ portfolioDisplay' = st.portfolio.display
             /\ holdingsShown' = st.portfolio.shown
             /\ chartDrawn' = st.portfolio.drawn
    /\ pc' = "done"
    /\ UNCHANGED <<configResp, episodesResp, postsResp, config, episodes, ticks>>
    /\ UNCHANGED <<newsletterVars, cardVars, accentVars>>
    /\ UNCHANGED <<lastResponses, refreshes, menuDom, overlayActive, bodyOverflow,
                   lastClick, clicks>>

\* window.hqvSite.loadLatestEpisodes() called again by page code
RenderEpisodesAgain ==
    /\ pc = "done"
    /\ LET st == LoadLatestEpisodes(Page)
       IN  /\ ~st.threw
           /\ episodesContainer' = st.episodesContainer
    /\ UNCHANGED <<pc, configResp, episodesResp, postsResp, config, episodes, posts,
                   stepsRun, initError, liveIndicator, platformLinks, footerLinks,
                   postsContainer, newsletterSignup, tickerStarted>>
    /\ UNCHANGED <<portfolioVars, newsletterVars, cardVars>>
    /\ UNCHANGED <<tickerVars, accentVars, menuVars>>

\* window.hqvSite.loadRecentPosts() called again by page code
RenderPostsAgain ==
    /\ pc = "done"
    /\ LET st == LoadRecentPosts(Page)
       IN  /\ posts' = st.posts
           /\ postsContainer' = st.postsContainer
    /\ UNCHANGED <<pc, configResp, episodesResp, postsResp, config, episodes,
                   stepsRun, initError, liveIndicator, platformLinks, footerLinks,
                   episodesContainer, newsletterSignup, tickerStarted>>
    /\ UNCHANGED <<portfolioVars, newsletterVars, cardVars>>
    /\ UNCHANGED <<tickerVars, accentVars, menuVars>>

----------------------------------------------------------------------------
(* The 30 second interval of the portfolio simulator *)

PortfolioTick ==
    /\ portfolioTimer
    /\ ticks < MaxTicks
    /\ \E fluctuation \in FluctuationVectors :
         \E p \in {PortfolioAfterTick(Page.portfolio, fluctuation)} :
             /\ portfolioHoldings' = p.holdings
             /\ totalValue' = p.totalValue
             /\ previousValue' = p.previousValue
             /\ chartData' = p.chartData
             /\ portfolioDisplay' = p.display
             /\ holdingsShown' = p.shown
             /\ chartDrawn' = p.drawn
    /\ ticks' = ticks + 1
    /\ UNCHANGED <<portfolioTimer, pipelineVars, newsletterVars, cardVars>>
    /\ UNCHANGED <<tickerVars, accentVars, menuVars>>

----------------------------------------------------------------------------
(* The ticker after setup *)

\* updateStockData resumes after await this.fetchStockData(stocks)
TickerBatchCompletes ==
    /\ tickerInFlight > 0
    /\ \E responses \in ResponseVectors, draws \in DrawVectors :
         \E frame \in {UpdateStockData(Stocks, responses, draws)} :
             /\ tickerContent' = frame.content
             /\ tickerSources' = frame.sources
             /\ lastResponses' = responses
    /\ tickerInFlight' = tickerInFlight - 1
    /\ UNCHANGED <<refreshes, pipelineVars, portfolioVars, newsletterVars, cardVars,
                   accentVars, menuVars>>

\* the 120 s interval callback: updateStockData is called and awaits
TickerInterval ==
    /\ tickerStarted
    /\ refreshes < MaxRefreshes
    /\ refreshes' = refreshes + 1
    /\ tickerInFlight' = tickerInFlight + 1
    /\ UNCHANGED <<tickerContent, tickerSources, lastResponses, pipelineVars,
                   portfolioVars, newsletterVars, cardVars, accentVars, menuVars>>

----------------------------------------------------------------------------
(* The accent colour timer of the DOMContentLoaded handler *)

\* a timer that falls back to the default colour when no config is loaded
AccentColorOrDefault(cfg, current) ==
    IF IsObject(cfg) /\ Truthy(cfg.accent_color)
    THEN cfg.accent_color ELSE FallbackConfig.accent_color

\* --accent-color after the callback has run with window.hqvSite.config = cfg
AccentColorAfterTimer(cfg, current) ==
    IF IsObject(cfg) /\ Truthy(cfg.accent_color) THEN cfg.accent_color ELSE current

\* the setTimeout callback, 100 ms after the handler ran
AccentTimerFires ==
    /\ accentTimer = "pending"
    /\ accentTimer' = "fired"
    /\ accentColor' = AccentColorAfterTimer(config, accentColor)
    /\ UNCHANGED <<pipelineVars, portfolioVars, newsletterVars, cardVars,
                   tickerVars, menuVars>>

----------------------------------------------------------------------------
(* The mobile menu listeners attached by setupNavigation *)

MenuOpen == [active |-> TRUE, overflow |-> "hidden"]
MenuClosed == [active |-> FALSE, overflow |-> ""]

\* an overlay listener that closes the menu wherever the click lands
MenuClosedByAnyClick(target, menu) == MenuClosed

\* the overlay's click listener: only a click on the overlay itself closes
MenuAfterOverlayClick(target, menu) ==
    IF target = "overlay" THEN MenuClosed ELSE menu

\* click on .mobile-menu-toggle
ToggleClick ==
    /\ navRegistered /\ menuDom.toggle /\ menuDom.overlay
    /\ clicks < MaxClicks
    /\ overlayActive' = MenuOpen.active
    /\ bodyOverflow' = MenuOpen.overflow
    /\ lastClick' = "toggle"
    /\ clicks' = clicks + 1
    /\ UNCHANGED <<menuDom, navRegistered, pipelineVars, portfolioVars,
                   newsletterVars, cardVars, tickerVars, accentVars>>

\* click on .mobile-menu-close
CloseClick ==
    /\ navRegistered /\ menuDom.close /\ menuDom.overlay
    /\ clicks < MaxClicks
    /\ overlayActive' = MenuClosed.active
    /\ bodyOverflow' = MenuClosed.overflow
    /\ lastClick' = "close"
    /\ clicks' = clicks + 1
    /\ UNCHANGED <<menuDom, navRegistered, pipelineVars, portfolioVars,
                   newsletterVars, cardVars, tickerVars, accentVars>>

\* click reaching the overlay's listener: on the overlay itself (the
\* backdrop) or on an element inside it
OverlayClick ==
    /\ navRegistered /\ menuDom.overlay
    /\ clicks < MaxClicks
    /\ \E target \in {"overlay", "inside"} :
         \E menu \in {MenuAfterOverlayClick(target, [active |-> overlayActive,
                                                     overflow |-> bodyOverflow])} :
             /\ overlayActive' = menu.active
             /\ bodyOverflow' = menu.overflow
             /\ lastClick' = IF target = "overlay" THEN "backdrop" ELSE "inside"
    /\ clicks' = clicks + 1
    /\ UNCHANGED <<menuDom, navRegistered, pipelineVars, portfolioVars,
                   newsletterVars, cardVars, tickerVars, accentVars>>

----------------------------------------------------------------------------
(* subscribeToNewsletter.  A string is a sequence of characters. *)

Chars == {" ", "a", "@", "+"}
Inputs == SeqUpTo(Chars, MaxLen)

\* String.prototype.trim
RECURSIVE TrimStart(_)
TrimStart(str) ==
    IF str # <<>> /\ Head(str) = " " THEN TrimStart(Tail(str)) ELSE str
RECURSIVE TrimEnd(_)
TrimEnd(str) ==
    IF str # <<>> /\ str[Len(str)] = " " THEN TrimEnd(SubSeq(str, 1, Len(str) - 1))
    ELSE str
Trim(str) == TrimEnd(TrimStart(str))

\* String.prototype.includes for one character
Includes(str, c) == \E i \in 1..Len(str) : str[i] = c

\* encodeURIComponent: letters pass, every other character of the alphabet
\* becomes % and its two hexadecimal digits
EncodeChar(c) ==
    CASE c = " " -> <<"%", "2", "0">>
      [] c = "@" -> <<"%", "4", "0">>
      [] c = "+" -> <<"%", "2", "B">>
      [] OTHER -> <<c>>
RECURSIVE EncodeURIComponent(_)
EncodeURIComponent(str) ==
    IF str = <<>> THEN <<>>
    ELSE EncodeChar(Head(str)) \o EncodeURIComponent(Tail(str))

SubscribeBase == "https://in-competence-we-trust.beehiiv.com/subscribe?email="
SubscribeUrl(email) == <<SubscribeBase>> \o EncodeURIComponent(email)

\* the first check alone
IsValidEmailNonEmpty(email) == email # <<>>

\* the two checks of subscribeToNewsletter
IsValidEmail(email) == email # <<>> /\ Includes(email, "@")

\* which alert the function shows for an address it refuses
AlertFor(email) ==
    IF email = <<>> THEN "Please enter your email address"
    ELSE "Please enter a valid email address"

SubscribeToNewsletter ==
    /\ calls < MaxCalls
    /\ calls' = calls + 1
    /\ LET email == Trim(emailInput)
       IN  IF IsValidEmail(email)
           THEN /\ opened' = Append(opened, [url |-> SubscribeUrl(email), target |-> "_blank"])
                /\ emailInput' = <<>>
                /\ analyticsLog' = Append(analyticsLog,
                       [category |-> "Newsletter", action |-> "Subscribe Attempt",
                        label |-> email])
                /\ UNCHANGED alerts
           ELSE /\ alerts' = Append(alerts, AlertFor(email))
                /\ UNCHANGED <<opened, emailInput, analyticsLog>>
    /\ UNCHANGED <<pipelineVars, portfolioVars, cardVars>>
    /\ UNCHANGED <<tickerVars, accentVars, menuVars>>

----------------------------------------------------------------------------
(* createPostCard called on its own *)

PostUrls == {Undefined, "", ExternalUrl, OtherUrl}
PostObjects ==
    {PostObject(id, date, published, url) :
        id \in 1..MaxPostId, date \in 1..MaxDate, published \in BOOLEAN, url \in PostUrls}

CallCreatePostCard ==
    /\ cardOut = <<>>
    /\ cardOut' = <<CreatePostCard(cardPost)>>
    /\ UNCHANGED <<cardPost, pipelineVars, portfolioVars, newsletterVars>>
    /\ UNCHANGED <<tickerVars, accentVars, menuVars>>

----------------------------------------------------------------------------
(* Specifications *)

InitPipeline(configs, episodeFiles, postFiles) ==
    /\ pc = "loadConfig"
    /\ configResp \in configs
    /\ episodesResp \in episodeFiles
    /\ postsResp \in postFiles
    /\ config = NullConfig
    /\ episodes = JsNull
    /\ posts = JsNull
    /\ stepsRun = <<>>
    /\ initError = FALSE
    /\ liveIndicator = "none"
    /\ platformLinks = [p \in Platforms |-> "#"]
    /\ footerLinks = [p \in Platforms |-> "#"]
    /\ episodesContainer = InitialContainer
    /\ postsContainer = InitialContainer
    /\ newsletterSignup = "initial"
    /\ tickerStarted = FALSE

InitPortfolioIdle ==
    /\ portfolioTimer = NoPortfolio.timer
    /\ portfolioHoldings = NoPortfolio.holdings
    /\ totalValue = NoPortfolio.totalValue
    /\ previousValue = NoPortfolio.previousValue
    /\ chartData = NoPortfolio.chartData
    /\ portfolioDisplay = NoPortfolio.display
    /\ holdingsShown = NoPortfolio.shown
    /\ chartDrawn = NoPortfolio.drawn
    /\ ticks = 0

InitNewsletter(inputs) ==
    /\ emailInput \in inputs
    /\ alerts = <<>>
    /\ opened = <<>>
    /\ analyticsLog = <<>>
    /\ calls = 0

InitCard(postObjects) ==
    /\ cardPost \in postObjects
    /\ cardOut = <<>>

AllMenuElements == [toggle |-> TRUE, overlay |-> TRUE, close |-> TRUE]

\* the ticker, the accent timer and the mobile menu when DOMContentLoaded
\* has run its handler
InitWidgets(menus) ==
    /\ tickerContent = <<>>
    /\ tickerSources = <<>>
    /\ tickerInFlight = 0
    /\ lastResponses = <<>>
    /\ refreshes = 0
    /\ accentTimer = "pending"
    /\ accentColor = Undefined
    /\ menuDom \in menus
    /\ navRegistered = FALSE
    /\ overlayActive = FALSE
    /\ bodyOverflow = ""
    /\ lastClick = "none"
    /\ clicks = 0

\* the content pipeline over every episodes file
Init ==
    /\ InitPipeline(ConfigResponses, EpisodesResponses, FewPostsResponses)
    /\ InitPortfolioIdle
    /\ InitNewsletter({<<>>})
    /\ InitCard({NullPost})
    /\ InitWidgets({AllMenuElements})

Next ==
    \/ LoadConfig
    \/ LoadEpisodes
    \/ LoadPosts
    \/ RenderEpisodesAgain
    \/ RenderPostsAgain

Spec == Init /\ [][Next]_vars

\* the content pipeline over every posts file
SomeEpisodes == <<EpisodeObject(1, TRUE), EpisodeObject(2, FALSE)>>

InitPosts ==
    /\ InitPipeline({Parsed(LiveConfig)}, {Parsed(ObjectBody(JsArray(SomeEpisodes)))},
                    PostsResponses)
    /\ InitPortfolioIdle
    /\ InitNewsletter({<<>>})
    /\ InitCard({NullPost})
    /\ InitWidgets({AllMenuElements})

SpecPosts == InitPosts /\ [][Next]_vars

\* the page with its portfolio interval running
InitPortfolio ==
    /\ InitPipeline({Parsed(LiveConfig)}, {Rejected(NullBody)}, {Rejected(NullBody)})
    /\ InitPortfolioIdle
    /\ InitNewsletter({<<>>})
    /\ InitCard({NullPost})
    /\ InitWidgets({AllMenuElements})

NextPortfolio ==
    \/ LoadConfig
    \/ LoadEpisodes
    \/ LoadPosts
    \/ PortfolioTick

SpecPortfolio == InitPortfolio /\ [][NextPortfolio]_vars

\* the newsletter form over every input value
InitSubscribe ==
    /\ InitPipeline({Rejected(NullConfig)}, {Rejected(NullBody)}, {Rejected(NullBody)})
    /\ InitPortfolioIdle
    /\ InitNewsletter(Inputs)
    /\ InitCard({NullPost})
    /\ InitWidgets({AllMenuElements})

NextSubscribe == SubscribeToNewsletter

SpecSubscribe == InitSubscribe /\ [][NextSubscribe]_vars

\* createPostCard over every post
InitCards ==
    /\ InitPipeline({Rejected(NullConfig)}, {Rejected(NullBody)}, {Rejected(NullBody)})
    /\ InitPortfolioIdle
    /\ InitNewsletter({<<>>})
    /\ InitCard(PostObjects)
    /\ InitWidgets({AllMenuElements})

NextCards == CallCreatePostCard

SpecCards == InitCards /\ [][NextCards]_vars

\* the page with its ticker running
InitTicker ==
    /\ InitPipeline({Parsed(LiveConfig)}, {Rejected(NullBody)}, {Rejected(NullBody)})
    /\ InitPortfolioIdle
    /\ InitNewsletter({<<>>})
    /\ InitCard({NullPost})
    /\ InitWidgets({AllMenuElements})

NextTicker ==
    \/ LoadConfig
    \/ LoadEpisodes
    \/ LoadPosts
    \/ TickerBatchCompletes
    \/ TickerInterval

SpecTicker == InitTicker /\ [][NextTicker]_vars

\* the page load racing the accent colour timer
InitAccent ==
    /\ InitPipeline(ConfigResponses, {Rejected(NullBody)}, {Rejected(NullBody)})
    /\ InitPortfolioIdle
    /\ InitNewsletter({<<>>})
    /\ InitCard({NullPost})
    /\ InitWidgets({AllMenuElements})

NextAccent ==
    \/ LoadConfig
    \/ LoadEpisodes
    \/ LoadPosts
    \/ AccentTimerFires

SpecAccent == InitAccent /\ [][NextAccent]_vars

\* pages with and without each of the mobile menu elements
MenuElements == [toggle : BOOLEAN, overlay : BOOLEAN, close : BOOLEAN]

InitMenu ==
    /\ InitPipeline({Parsed(LiveConfig), Rejected(NullConfig)},
                    {Rejected(NullBody)}, {Rejected(NullBody)})
    /\ InitPortfolioIdle
    /\ InitNewsletter({<<>>})
    /\ InitCard({NullPost})
    /\ InitWidgets(MenuElements)

NextMenu ==
    \/ LoadConfig
    \/ LoadEpisodes
    \/ LoadPosts
    \/ ToggleClick
    \/ CloseClick
    \/ OverlayClick

SpecMenu == InitMenu /\ [][NextMenu]_vars

----------------------------------------------------------------------------
(* Properties of the content loader *)

\* a load that failed: the request was rejected, the body did not parse, or
\* the parsed body has the wrong shape
ConfigLoadFailed == configResp.kind # "ok" \/ configResp.body.kind # "object"
EpisodesLoadFailed ==
    \/ episodesResp.kind # "ok"
    \/ episodesResp.body.kind # "object"
    \/ episodesResp.body.list.kind # "array"
PostsLoadFailed ==
    \/ postsResp.kind # "ok"
    \/ postsResp.body.kind # "object"
    \/ postsResp.body.list.kind # "array"

\* C1: once a resource's load has returned, a load that failed in any way
\* (rejection, unparsable body, wrong shape) has left the documented default:
\* the fallback configuration, the empty episode list, the empty post list.
C1_FailedLoadLeavesDefault ==
    /\ (pc # "loadConfig" /\ ConfigLoadFailed) => config = FallbackConfig
    /\ (pc \in {"loadPosts", "done"} /\ EpisodesLoadFailed) => episodes = JsArray(<<>>)
    /\ (pc = "done" /\ PostsLoadFailed) => posts = JsArray(<<>>)

Rendered(container) == container.kind \in {"cards", "placeholder"}

\* C2: whatever the three loads produced, once init has finished every
\* setup step has run, in order, both containers hold cards or the
\* placeholder, and both simulators are started.
C2_InitRunsEverySetupStep ==
    pc = "done" =>
        /\ stepsRun = SetupSteps
        /\ Rendered(episodesContainer)
        /\ Rendered(postsContainer)
        /\ portfolioTimer
        /\ tickerStarted

----------------------------------------------------------------------------
(* Properties of the renderer *)

\* the posts file parsed to a list of post objects
PostsFileIsList ==
    /\ postsResp.kind = "ok"
    /\ postsResp.body.kind = "object"
    /\ postsResp.body.list.kind = "array"
    /\ \A i \in 1..Len(postsResp.body.list.items) :
          postsResp.body.list.items[i].kind = "object"

PostsFile == postsResp.body.list.items
PublishedIds == {i \in 1..Len(PostsFile) : PostsFile[i].published}
PostCards == postsContainer.cards
PostCardIds == {PostCards[k].id : k \in 1..Len(PostCards)}

\* C3: for every post list, the posts rendered are at most 3, all published,
\* in date-descending order, the most recent published ones, and posts with
\* equal dates keep the order they have in the file.
C3_RecentPostsRendered ==
    (pc = "done" /\ PostsFileIsList) =>
        /\ Len(PostCards) = Min(3, Cardinality(PublishedIds))
        /\ Cardinality(PostCardIds) = Len(PostCards)
        /\ PostCardIds \subseteq PublishedIds
        /\ \A k \in 1..Len(PostCards) : PostCards[k].date = PostsFile[PostCards[k].id].date
        /\ \A j, k \in 1..Len(PostCards) :
              j < k => \/ PostCards[j].date > PostCards[k].date
                       \/ /\ PostCards[j].date = PostCards[k].date
                          /\ PostCards[j].id < PostCards[k].id
        /\ \A i \in PublishedIds \ PostCardIds : \A k \in 1..Len(PostCards) :
              \/ PostsFile[i].date < PostCards[k].date
              \/ /\ PostsFile[i].date = PostCards[k].date
                 /\ PostCards[k].id < i

\* four published posts, not in date order, two of the rendered ones sharing
\* a date, and one left out
C3_Witness ==
    /\ pc = "done"
    /\ PostsFileIsList
    /\ Cardinality(PublishedIds) = 4
    /\ Len(PostCards) = 3
    /\ PostCards[1].id > PostCards[2].id
    /\ PostCards[2].date = PostCards[3].date

\* the episodes file parsed to a list of episode objects
EpisodesFileIsList ==
    /\ episodesResp.kind = "ok"
    /\ episodesResp.body.kind = "object"
    /\ episodesResp.body.list.kind = "array"
    /\ \A i \in 1..Len(episodesResp.body.list.items) :
          episodesResp.body.list.items[i].kind = "object"

EpisodesFile == episodesResp.body.list.items
FeaturedNumbers == {i \in 1..Len(EpisodesFile) : EpisodesFile[i].featured}
EpisodeCards == episodesContainer.cards

\* C4: for every episode list, the episodes rendered are exactly the first
\* up-to-3 featured episodes in their original order, and with no featured
\* episode the container shows the placeholder 'No episodes available yet.'.
C4_LatestEpisodesRendered ==
    (pc = "done" /\ EpisodesFileIsList) =>
        IF FeaturedNumbers = {}
        THEN episodesContainer =
                 [kind |-> "placeholder", text |-> "No episodes available yet.",
                  cards |-> <<>>]
        ELSE /\ episodesContainer.kind = "cards"
             /\ Len(EpisodeCards) = Min(3, Cardinality(FeaturedNumbers))
             /\ \A k \in 1..Len(EpisodeCards) : EpisodeCards[k].number \in FeaturedNumbers
             /\ \A j, k \in 1..Len(EpisodeCards) :
                   j < k => EpisodeCards[j].number < EpisodeCards[k].number
             /\ \A i \in FeaturedNumbers :
                   (\A k \in 1..Len(EpisodeCards) : EpisodeCards[k].number # i)
                       => \A k \in 1..Len(EpisodeCards) : EpisodeCards[k].number < i

\* four featured episodes, of which three are rendered
C4_Witness ==
    /\ pc = "done"
    /\ EpisodesFileIsList
    /\ Cardinality(FeaturedNumbers) = 4
    /\ Len(EpisodeCards) = 3

\* C6: rendering is pure and idempotent: after rendering, the loaded episode
\* and post lists are as the loaders left them (contents and order), and
\* rendering again produces the same container content and the same lists.
C6_RenderingIsPure ==
    pc = "done" =>
        /\ episodes = LoadEpisodesResult(episodesResp)
        /\ posts = LoadPostsResult(postsResp)
        /\ LoadLatestEpisodes(Page).episodesContainer = episodesContainer
        /\ LoadRecentPosts(Page).postsContainer = postsContainer
        /\ LoadRecentPosts(Page).posts = posts

\* C7: createPostCard links to the post's url in a new context (_blank)
\* when the post has an explicit (non-empty) url, and otherwise to
\* /post.html?id=<id> in the same context (_self); the two never mix.
C7_PostCardLink ==
    cardOut # <<>> =>
        LET card == cardOut[1]
            explicit == cardPost.url # "undefined" /\ cardPost.url # ""
            internal == "/post.html?id=" \o ToString(cardPost.id)
        IN  /\ explicit => card.href = cardPost.url /\ card.target = "_blank"
            /\ ~explicit => card.href = internal /\ card.target = "_self"
            /\ card.target \in {"_blank", "_self"}
            /\ card.href = internal => card.target = "_self"
            /\ card.target = "_self" => card.href = internal

\* a post without a url has been rendered
C7_Witness ==
    /\ cardOut # <<>>
    /\ cardPost.url = "undefined"
    /\ cardOut[1].target = "_self"

----------------------------------------------------------------------------
(* Properties of subscribeToNewsletter *)

\* the input without its leading and trailing spaces
TrimmedValue(str) ==
    LET cut == CHOOSE c \in (0..Len(str)) \X (0..Len(str)) :
                   /\ c[1] <= c[2]
                   /\ \A i \in 1..c[1] : str[i] = " "
                   /\ \A i \in (c[2] + 1)..Len(str) : str[i] = " "
                   /\ c[1] < c[2] => str[c[1] + 1] # " " /\ str[c[2]] # " "
    IN  SubSeq(str, cut[1] + 1, cut[2])

\* decodeURIComponent over the escapes of the alphabet
RECURSIVE PercentDecode(_)
PercentDecode(str) ==
    IF str = <<>> THEN <<>>
    ELSE IF Head(str) = "%" /\ Len(str) >= 3
         THEN LET hex == <<str[2], str[3]>>
                  c == CASE hex = <<"2", "0">> -> " "
                         [] hex = <<"4", "0">> -> "@"
                         [] hex = <<"2", "B">> -> "+"
                         [] OTHER -> "?"
              IN  <<c>> \o PercentDecode(SubSeq(str, 4, Len(str)))
         ELSE <<Head(str)>> \o PercentDecode(Tail(str))

C5_SubscribeStep ==
    calls' = calls + 1 =>
        LET email == TrimmedValue(emailInput)
            valid == email # <<>> /\ \E i \in 1..Len(email) : email[i] = "@"
        IN  IF valid
            THEN /\ Len(opened') = Len(opened) + 1
                 /\ SubSeq(opened', 1, Len(opened)) = opened
                 /\ LET url == opened'[Len(opened')].url
                    IN  /\ Head(url) = SubscribeBase
                        /\ PercentDecode(Tail(url)) = email
                        /\ \A i \in 2..Len(url) : url[i] \notin {" ", "@", "+"}
                 /\ emailInput' = <<>>
                 /\ alerts' = alerts
            ELSE /\ Len(alerts') = Len(alerts) + 1
                 /\ SubSeq(alerts', 1, Len(alerts)) = alerts
                 /\ opened' = opened
                 /\ emailInput' = emailInput
                 /\ analyticsLog' = analyticsLog

\* C5: for every input value, subscribeToNewsletter opens the subscription
\* URL iff the trimmed input is non-empty and contains "@"; then the URL
\* carries the URL-encoded trimmed address and the field is cleared;
\* otherwise exactly one alert is shown, nothing is opened, the field is
\* left unchanged and no analytics event is emitted.
C5_SubscribeValidates == [][C5_SubscribeStep]_vars

\* an address with surrounding spaces was accepted and encoded, and the
\* call that followed on the cleared field was refused
C5_Witness ==
    /\ calls = 2
    /\ Len(opened) = 1
    /\ Len(opened[1].url) = 4
    /\ Len(alerts) = 1
    /\ emailInput = <<>>

----------------------------------------------------------------------------
(* Properties of the portfolio simulator *)

\* the sum of shares * price over the holdings, summed from the front
RECURSIVE ValueSum(_, _)
ValueSum(holdings, k) ==
    IF k > Len(holdings) THEN 0
    ELSE holdings[k].shares * holdings[k].price + ValueSum(holdings, k + 1)

CurrentTotal == ValueSum(portfolioHoldings, 1)

\* the holdings whose share of the current total is above 10%
AboveTenPercent ==
    {i \in 1..Len(portfolioHoldings) :
        portfolioHoldings[i].shares * portfolioHoldings[i].price * 10 > CurrentTotal}

\* C8: at every snapshot the holdings list shown is exactly the subset of
\* the ten holdings whose share of the current total is strictly above 10%,
\* sorted by share descending.
C8_KeyHoldingsShown ==
    portfolioTimer =>
        /\ Len(holdingsShown) = Cardinality(AboveTenPercent)
        /\ {holdingsShown[k].symbol : k \in 1..Len(holdingsShown)}
              = {portfolioHoldings[i].symbol : i \in AboveTenPercent}
        /\ \A k \in 1..Len(holdingsShown) : \E i \in AboveTenPercent :
              /\ holdingsShown[k].symbol = portfolioHoldings[i].symbol
              /\ holdingsShown[k].value =
                    portfolioHoldings[i].shares * portfolioHoldings[i].price
        /\ \A j, k \in 1..Len(holdingsShown) :
              j < k => holdingsShown[j].value >= holdingsShown[k].value

\* a holding shown at setup has fallen to 10% or below and is gone
C8_Witness ==
    /\ portfolioTimer
    /\ ticks > 0
    /\ Len(holdingsShown) = 3
    /\ \A k \in 1..Len(holdingsShown) : holdingsShown[k].symbol # "NVDA"

C9_Snapshot ==
    portfolioTimer =>
        /\ portfolioDisplay.written
        /\ portfolioDisplay.total = CurrentTotal
        /\ Len(portfolioHoldings) = 10
        /\ \A i \in 1..Len(portfolioHoldings) :
              /\ portfolioHoldings[i].symbol = SeedHoldings[i].symbol
              /\ portfolioHoldings[i].shares = SeedHoldings[i].shares
              /\ portfolioHoldings[i].price > 0

C9_TickStep ==
    ticks' = ticks + 1 =>
        /\ Len(portfolioHoldings') = Len(portfolioHoldings)
        /\ \A i \in 1..Len(portfolioHoldings) :
              /\ portfolioHoldings'[i].symbol = portfolioHoldings[i].symbol
              /\ portfolioHoldings'[i].shares = portfolioHoldings[i].shares
              /\ portfolioHoldings'[i].price * 100 >= portfolioHoldings[i].price * 99
              /\ portfolioHoldings'[i].price * 100 <= portfolioHoldings[i].price * 101

\* C9: at every snapshot the total passed to the display is the sum of
\* shares * price over the ten seeded holdings; a tick changes every price
\* by a factor within 1% of its prior value, prices stay positive, and the
\* share counts and the set of ten holdings do not change.
C9_TotalIsSumOfHoldings == [][C9_Snapshot' /\ C9_TickStep]_vars

\* after the last tick the displayed total has moved away from the seed total
C9_Witness ==
    /\ ticks = MaxTicks
    /\ portfolioDisplay.total = CurrentTotal
    /\ portfolioDisplay.total # ValueSum(SeedHoldings, 1)
    /\ \E i \in 1..Len(portfolioHoldings) :
          portfolioHoldings[i].price < SeedHoldings[i].price

\* C10: in every reachable state the series passed to drawPortfolioChart,
\* from the initial synthetic series through every tick, holds at most 20
\* points.
C10_ChartSeriesCapped ==
    portfolioTimer => Len(chartDrawn) <= 20 /\ Len(chartData) <= 20


----------------------------------------------------------------------------
(* Properties of the stock ticker *)

\* the response of symbol i carries a current price that is present and positive
PositivePrice(i) ==
    /\ lastResponses[i].kind = "ok"
    /\ lastResponses[i].body.kind = "object"
    /\ lastResponses[i].body.c.kind # "undefined"
    /\ lastResponses[i].body.c.value > 0

\* the number a quote field shows, 0 when the field is absent
Shown(field) == IF field.kind = "undefined" THEN 0 ELSE field.value

\* item i shows the live quote of its response
ShowsLiveQuote(i) ==
    /\ tickerSources[i] = "live"
    /\ tickerContent[i].price = lastResponses[i].body.c.value
    /\ tickerContent[i].change = Shown(lastResponses[i].body.d)
    /\ tickerContent[i].changePercent = Shown(lastResponses[i].body.dp)

\* one item per symbol of the list, in list order
FullFrame ==
    /\ Len(tickerContent) = Len(Stocks)
    /\ \A i \in 1..Len(Stocks) : tickerContent[i].symbol = Stocks[i]

\* C11: after every quote batch the ticker holds one item per symbol in list
\* order; a symbol whose request failed or whose response has no positive
\* current price shows a synthetic quote, every other symbol shows the live
\* quote of its response; an item is green when its change is non-negative
\* and red otherwise.
C11_TickerBatchRendered ==
    lastResponses # <<>> =>
        /\ FullFrame
        /\ \A i \in 1..Len(Stocks) :
              /\ tickerContent[i].color =
                    (IF tickerContent[i].change >= 0 THEN "#00ff88" ELSE "#ff4757")
              /\ IF PositivePrice(i) THEN ShowsLiveQuote(i) ELSE tickerSources[i] # "live"

\* C12: once setupStockTicker has run, the ticker holds a full frame (one
\* item per symbol, never empty content) in every state: after the setup
\* itself, after the first batch and after every later refresh, whether the
\* batch was rendered or fell back.
C12_TickerNeverEmpty == tickerStarted => FullFrame

\* a refresh whose rendering fell back to the synthetic frame, with a later
\* refresh still awaiting its quotes
C12_Witness ==
    /\ tickerStarted
    /\ refreshes >= 1
    /\ lastResponses # <<>>
    /\ \A i \in 1..Len(Stocks) : tickerSources[i] = "frame"
    /\ \E i \in 1..Len(Stocks) : PositivePrice(i)
    /\ FullFrame


----------------------------------------------------------------------------
(* Properties of the accent colour timer *)

\* the config the page holds names an accent colour
ConfigHasAccent ==
    config.kind = "object" /\ config.accent_color \notin {"undefined", ""}

\* the step in which the one-shot timer fires
TimerFiresNow == accentTimer = "pending" /\ accentTimer' = "fired"

C13_AccentStep ==
    /\ accentColor' # accentColor =>
          TimerFiresNow /\ ConfigHasAccent /\ accentColor' = config.accent_color
    /\ TimerFiresNow /\ ConfigHasAccent => accentColor' = config.accent_color
    /\ accentTimer = "fired" => accentTimer' = "fired" /\ accentColor' = accentColor

\* C13: --accent-color changes only in the step in which the one-shot timer
\* fires, and only when the config held at that moment is loaded and names
\* an accent colour, in which case it becomes that colour; once the timer
\* has fired it never fires again and the variable never changes, whatever
\* the config load does afterwards.
C13_AccentSetOnlyByTimer == [][C13_AccentStep]_vars

\* the timer fired before the config arrived: the load has completed with
\* an accent colour and the variable is still unset
C13_Witness ==
    /\ accentTimer = "fired"
    /\ pc = "done"
    /\ ConfigHasAccent
    /\ accentColor = "undefined"


----------------------------------------------------------------------------
(* Properties of the mobile menu *)

\* page scrolling is locked exactly when the overlay is active
ScrollLockedIffOpen == (bodyOverflow = "hidden") <=> overlayActive

C14_MenuStep ==
    /\ ScrollLockedIffOpen
    /\ ScrollLockedIffOpen'
    /\ clicks' = clicks => overlayActive' = overlayActive /\ bodyOverflow' = bodyOverflow
    /\ clicks' # clicks =>
          /\ lastClick' = "toggle" => overlayActive'
          /\ lastClick' \in {"close", "backdrop"} => ~overlayActive'
          /\ lastClick' = "inside" =>
                overlayActive' = overlayActive /\ bodyOverflow' = bodyOverflow

\* C14: before and after every step, body overflow is hidden if and only if
\* the overlay is active; a handled toggle click leaves the overlay active, a
\* handled close click or backdrop click leaves it inactive, a click on an
\* element inside the overlay changes neither the overlay nor the overflow,
\* and nothing but a menu click changes them.
C14_MenuLocksScrollIffOpen == [][C14_MenuStep]_vars

\* a click inside the open overlay has been handled and the menu is still
\* open with scrolling locked
C14_Witness ==
    /\ lastClick = "inside"
    /\ clicks >= 2
    /\ overlayActive
    /\ bodyOverflow = "hidden"

====
